---- MODULE Spec2Model ----
(***************************************************************************)
(* Model of the task pane of the Excel AI Transform add-in                 *)
(* (src/taskpane/app.js, first revision in the file, lines 1-688): the     *)
(* session state, the capture / transform / retry / cancel handlers, the   *)
(* network call wrapper and the local execution engine.                    *)
(*                                                                         *)
(* The host is single threaded.  A handler runs to its first await; what   *)
(* it awaits (the network reply, the zero-delay timer of the execution     *)
(* engine) is delivered by a later task.  A promise rejected by abort() is *)
(* delivered by a microtask, which runs before the next task: the variable *)
(* microtasks holds those continuations and every task waits for it to be  *)
(* empty.                                                                  *)
(***************************************************************************)
EXTENDS Integers, Sequences, FiniteSets, TLC

\* ---------------------------------------------------------------- bounds
MaxCycles == 3

\* The longest array a constant-returning transform source returns.
MaxReturnLen == 3

\* The longest string cell given to arrayToCsv.
MaxCellLen == 2

\* The requests of one client the proxy is sent beyond those its limiter
\* lets through in one window.
MaxOver == 1

\* The requests of the second client the proxy's limiter counts in one
\* window, the first client being the one that exhausts its limit.
MaxSecond == 2

\* ------------------------------------------------------------ JS values
Null == "<null>"
Undefined == "<undefined>"

Truthy(v) == v \notin {Null, Undefined, ""}

IsString(v) == v \notin {Null, Undefined}

\* ------------------------------------------------------------ constants
SAMPLE_SIZE == 50

CLIENT_TIMEOUT_MS == 90000

\* proxy_read_timeout of the gateway in front of the relay, in ms.
GatewayReadTimeoutMs == 120000

MsgCancelled == "Request was cancelled."

MsgTimeout == "Request timed out. The AI took too long to respond."

MsgRateLimited == "Rate limited. Please wait a moment and try again."

MsgUpstream == "AI service error. Try again later."

MsgUnknownProxy == "Unknown error from proxy."

MsgNoInput == "No input data captured. Use the buttons above to select data."

MsgNoOutput == "No output example captured. Use the buttons above to select example data."

MsgParseFailed == "Failed to parse AI response. Raw response shown below."

MsgNoFunctionOrData == "AI did not return a transform function or data."

MsgNotFunction == "AI did not return a valid function."

MsgEmptyResult == "Transform function returned empty or non-array result."

MsgNot2D == "Transform function did not return a 2D array."

MsgComplete == "Transformation complete!"

MsgWrittenNewSheet == "Data written to new sheet: AI_Transform_251104_061500"

MsgWrittenSelection == "Data written to current selection."

MsgWriteFailed == "Failed to write data."

MsgLoadingFix == "Asking AI to fix the transform function..."

MsgLoadingTransform == "Analyzing pattern from sample data..."

MsgTransformFailed == "Transform failed."

\* The message of the TypeError the engine raises when .message is read
\* from a thrown null.
MsgTypeErrorNull == "Cannot read properties of null (reading 'message')"

\* ---------------------------------------------------------------- tables
\* The table objects the host can hand to a capture.  A table is a
\* sequence of rows, a row a sequence of cells; row 1 is the header.
\* Table 2 has one data row more than a prompt samples.
TableId == 1 .. 3

NoTable == 0

InputTables == {1, 2}

OutputTables == {3}

InitialHeap ==
    [t \in TableId |->
        CASE t = 1 -> << <<"name">>, <<"alice">>, <<"bob">> >>
          [] t = 2 -> << <<"name">> >> \o
                      [i \in 1 .. SAMPLE_SIZE + 1 |-> <<"carol">>]
          [] OTHER -> << <<"NAME">>, <<"ALICE">> >>]

Min(a, b) == IF a < b THEN a ELSE b

\* -------------------------------------------------------- arrayToCsv
\* Texts that arrayToCsv reads character by character are sequences of
\* one-character strings.  A cell is null, undefined, a string (s), a
\* number (n) or a boolean (b).
Cell(t, str, n, b) == [t |-> t, s |-> str, n |-> n, b |-> b]

NullCell == Cell("null", <<>>, 0, FALSE)

UndefinedCell == Cell("undefined", <<>>, 0, FALSE)

StringCell(str) == Cell("string", str, 0, FALSE)

NumberCell(n) == Cell("number", <<>>, n, FALSE)

BooleanCell(b) == Cell("boolean", <<>>, 0, b)

RECURSIVE DigitsOf(_)
\* String(n) of a natural number.
DigitsOf(n) ==
    LET digit(d) == CASE d = 0 -> "0" [] d = 1 -> "1" [] d = 2 -> "2"
                      [] d = 3 -> "3" [] d = 4 -> "4" [] d = 5 -> "5"
                      [] d = 6 -> "6" [] d = 7 -> "7" [] d = 8 -> "8"
                      [] OTHER -> "9"
    IN  IF n < 10 THEN <<digit(n)>>
        ELSE DigitsOf(n \div 10) \o <<digit(n % 10)>>

\* String(cell)
StringOf(cell) ==
    CASE cell.t = "string" -> cell.s
      [] cell.t = "number" -> DigitsOf(cell.n)
      [] cell.t = "boolean" ->
           IF cell.b THEN <<"t", "r", "u", "e">>
           ELSE <<"f", "a", "l", "s", "e">>
      [] cell.t = "null" -> <<"n", "u", "l", "l">>
      [] OTHER -> <<"u", "n", "d", "e", "f", "i", "n", "e", "d">>

\* The cell's text taken as cell || '': every falsy cell becomes empty.
CellTextOfTruthy(cell) ==
    IF cell.t \in {"null", "undefined"}
       \/ (cell.t = "number" /\ cell.n = 0)
       \/ (cell.t = "boolean" /\ ~cell.b)
    THEN <<>>
    ELSE StringOf(cell)

\* cell == null ? '' : String(cell)
CellText(cell) ==
    IF cell.t \in {"null", "undefined"} THEN <<>> ELSE StringOf(cell)

\* str.includes(ch)
Includes(str, ch) == \E i \in 1 .. Len(str) : str[i] = ch

RECURSIVE DoubleQuotes(_)
\* str.replace(/"/g, '""')
DoubleQuotes(str) ==
    IF str = <<>> THEN <<>>
    ELSE (IF Head(str) = "\"" THEN <<"\"", "\"">> ELSE <<Head(str)>>)
         \o DoubleQuotes(Tail(str))

\* The field quoted for a comma or a quote only.
CsvFieldIgnoringNewline(str) ==
    IF Includes(str, ",") \/ Includes(str, "\"")
    THEN <<"\"">> \o DoubleQuotes(str) \o <<"\"">>
    ELSE str

\* The field arrayToCsv emits for the text of a cell.
CsvField(str) ==
    IF Includes(str, ",") \/ Includes(str, "\"") \/ Includes(str, "\n")
    THEN <<"\"">> \o DoubleQuotes(str) \o <<"\"">>
    ELSE str

RECURSIVE JoinChars(_, _)
\* Array.prototype.join on texts that are sequences of characters.
JoinChars(texts, sep) ==
    IF Len(texts) = 0 THEN <<>>
    ELSE IF Len(texts) = 1 THEN texts[1]
    ELSE texts[1] \o sep \o JoinChars(Tail(texts), sep)

\* arrayToCsv with the fields of a row joined by nothing.
arrayToCsvWithoutSeparator(data) ==
    JoinChars([r \in 1 .. Len(data) |->
                  JoinChars([c \in 1 .. Len(data[r]) |->
                                CsvField(CellText(data[r][c]))], <<>>)],
              <<"\n">>)

\* arrayToCsv(data)
arrayToCsv(data) ==
    JoinChars([r \in 1 .. Len(data) |->
                  JoinChars([c \in 1 .. Len(data[r]) |->
                                CsvField(CellText(data[r][c]))], <<",">>)],
              <<"\n">>)

\* ------------------------------------------------------ buildPrompt
\* The slice taking SAMPLE_SIZE rows, the header among them.
SampleRowsCountingHeader(table) ==
    SubSeq(table, 1, Min(Len(table), SAMPLE_SIZE))

\* inputData.slice(0, Math.min(inputData.length, SAMPLE_SIZE + 1))
SampleRows(table) == SubSeq(table, 1, Min(Len(table), SAMPLE_SIZE + 1))

\* The transform prompt stating the total as the number of rows shown.
buildTransformPromptShowingAll(inputData, outputExample) ==
    [kind |-> "transform",
     sample |-> SampleRows(inputData),
     totalRows |-> Len(inputData) - 1,
     showingCount |-> Len(inputData) - 1,
     example |-> outputExample,
     failedFunction |-> Null,
     errorMessage |-> Null]

\* What the transform prompt embeds of its arguments.
buildTransformPrompt(inputData, outputExample) ==
    [kind |-> "transform",
     sample |-> SampleRows(inputData),
     totalRows |-> Len(inputData) - 1,
     showingCount |-> Min(Len(inputData) - 1, SAMPLE_SIZE),
     example |-> outputExample,
     failedFunction |-> Null,
     errorMessage |-> Null]

\* What the fix prompt embeds of its arguments (it states no row count).
buildFixPrompt(inputData, outputExample, failedFunction, errorMessage) ==
    [kind |-> "fix",
     sample |-> SampleRows(inputData),
     totalRows |-> 0 - 1,
     showingCount |-> 0 - 1,
     example |-> outputExample,
     failedFunction |-> failedFunction,
     errorMessage |-> errorMessage]

NoPrompt ==
    [kind |-> "none", sample |-> <<>>, totalRows |-> 0 - 1,
     showingCount |-> 0 - 1, example |-> <<>>,
     failedFunction |-> Null, errorMessage |-> Null]

\* ------------------------------------------------- transform sources
\* The transform sources a reply can carry, named by what they do.
Sources ==
    {"upper", "mutate", "mutateThrow", "syntaxErr", "notFn", "throwErr",
     "throwEmpty", "throwStr", "throwNull", "retEmpty", "retFlat",
     "retScalar", "ambient"}

Upper(c) ==
    CASE c = "name" -> "NAME"
      [] c = "alice" -> "ALICE"
      [] c = "bob" -> "BOB"
      [] c = "carol" -> "CAROL"
      [] OTHER -> c

\* A JS array element of a value a callable returns: an array of cells or
\* something that is not an array.
ArrElem(cells) == [arr |-> TRUE, cells |-> cells]

ScalarElem == [arr |-> FALSE, cells |-> <<>>]

RECURSIVE JoinText(_, _)
\* Array.prototype.join on texts.
JoinText(texts, sep) ==
    IF Len(texts) = 0 THEN ""
    ELSE IF Len(texts) = 1 THEN texts[1]
    ELSE texts[1] \o sep \o JoinText(Tail(texts), sep)

\* The elements and the values a source of the form
\* "(header, rows) => <literal>" can return: the literal is a number or an
\* array of at most MaxReturnLen numbers and arrays of cells.
ReturnElems ==
    {ScalarElem, ArrElem(<<>>), ArrElem(<<"H1">>), ArrElem(<<"a", "b">>)}

ReturnValues ==
    {[isArray |-> FALSE, elems |-> <<>>]} \cup
    {[isArray |-> TRUE, elems |-> e] :
        e \in UNION {[1 .. n -> ReturnElems] : n \in 0 .. MaxReturnLen}}

\* The literal as it stands in the source text.
LiteralText(v) ==
    LET elem(e) == IF e.arr THEN "[" \o JoinText(e.cells, ",") \o "]" ELSE "1"
    IN  IF v.isArray
        THEN "[" \o JoinText([i \in 1 .. Len(v.elems) |-> elem(v.elems[i])],
                             ",") \o "]"
        ELSE "42"

ConstSource(v) == "(header, rows) => " \o LiteralText(v)

ConstSources == {ConstSource(v) : v \in ReturnValues}

\* The value the literal of a constant-returning source evaluates to.
LiteralOf(src) == CHOOSE v \in ReturnValues : ConstSource(v) = src

\* new Function('"use strict"; return (' + src + ')') followed by the
\* typeof check: the error thrown, or Null when a callable results.
CompileError(src) ==
    CASE src = "syntaxErr" -> "Unexpected token ')'"
      [] src = "notFn" -> MsgNotFunction
      [] OTHER -> Null

\* The row itself handed on, without row.slice().
RowWithoutSlice(hp, t, i) == [alias |-> TRUE, cells |-> hp[t][i]]

\* row.slice(): a new array holding the cells of row i of table t.
SliceRow(hp, t, i) == [alias |-> FALSE, cells |-> hp[t][i]]

\* The arguments built from the rows a prompt samples.
CopyArgsOfSample(hp, t) ==
    [tbl |-> t,
     header |-> SliceRow(hp, t, 1),
     rows |-> [i \in 1 .. (Len(SampleRows(hp[t])) - 1) |->
                  SliceRow(hp, t, i + 1)]]

\* The arguments executeJsTransform builds from fullData.
CopyArgs(hp, t) ==
    [tbl |-> t,
     header |-> SliceRow(hp, t, 1),
     rows |-> [i \in 1 .. (Len(hp[t]) - 1) |-> SliceRow(hp, t, i + 1)]]

NoArgs ==
    [tbl |-> NoTable, header |-> [alias |-> FALSE, cells |-> <<>>],
     rows |-> <<>>]

\* header[0] = "x"; rows[0][0] = "x"; rows.push(["x"]) as done by the
\* mutating sources: the arguments afterwards.
MutatedArgs(args) ==
    LET h == args.header
        h2 == IF Len(h.cells) > 0
              THEN [h EXCEPT !.cells = [h.cells EXCEPT ![1] = "x"]]
              ELSE h
        r == args.rows
        r2 == IF Len(r) > 0 /\ Len(r[1].cells) > 0
              THEN [r EXCEPT ![1] =
                       [r[1] EXCEPT !.cells = [r[1].cells EXCEPT ![1] = "x"]]]
              ELSE r
    IN  [args EXCEPT !.header = h2,
                     !.rows = Append(r2, [alias |-> FALSE, cells |-> <<"x">>])]

\* The table a mutation of the arguments leaves behind in the caller's
\* table object: a write to an argument row reaches the caller's row
\* exactly when the argument row is that very array.
WrittenThrough(hp, before, after) ==
    LET t == before.tbl
        tab == hp[t]
        hdr == IF before.header.alias THEN after.header.cells ELSE tab[1]
    IN  [hp EXCEPT ![t] =
            [i \in 1 .. Len(tab) |->
                IF i = 1 THEN hdr
                ELSE IF i - 1 <= Len(before.rows) /\ before.rows[i - 1].alias
                     THEN after.rows[i - 1].cells
                     ELSE tab[i]]]

ArgsAsValue(args) ==
    [isArray |-> TRUE,
     elems |-> <<ArrElem(args.header.cells)>> \o
               [i \in 1 .. Len(args.rows) |-> ArrElem(args.rows[i].cells)]]

NoThrow == [t |-> "none", message |-> Null]

NoValue == [isArray |-> FALSE, elems |-> <<>>]

\* transformFn(header, rows) for each source that compiles to a callable:
\* the arguments afterwards, what it throws or returns, and whether it
\* wrote the host's local storage.
Invoke(src, args) ==
    LET ret(v) == [args |-> args, thrown |-> NoThrow, value |-> v,
                   storage |-> FALSE]
        thr(e) == [args |-> args, thrown |-> e, value |-> NoValue,
                   storage |-> FALSE]
    IN  CASE src = "upper" ->
               ret([isArray |-> TRUE,
                    elems |->
                      <<ArrElem([j \in 1 .. Len(args.header.cells) |->
                                    Upper(args.header.cells[j])])>> \o
                      [i \in 1 .. Len(args.rows) |->
                          ArrElem([j \in 1 .. Len(args.rows[i].cells) |->
                                      Upper(args.rows[i].cells[j])])]])
          [] src = "mutate" ->
               [args |-> MutatedArgs(args), thrown |-> NoThrow,
                value |-> ArgsAsValue(MutatedArgs(args)), storage |-> FALSE]
          [] src = "mutateThrow" ->
               [args |-> MutatedArgs(args),
                thrown |-> [t |-> "Error", message |-> "boom"],
                value |-> NoValue, storage |-> FALSE]
          [] src = "throwErr" -> thr([t |-> "Error", message |-> "boom"])
          [] src = "throwEmpty" -> thr([t |-> "Error", message |-> ""])
          [] src = "throwStr" -> thr([t |-> "string", message |-> Undefined])
          [] src = "throwNull" -> thr([t |-> "null", message |-> Undefined])
          [] src = "retEmpty" -> ret([isArray |-> TRUE, elems |-> <<>>])
          [] src = "retFlat" ->
               ret([isArray |-> TRUE,
                    elems |-> <<ScalarElem, ScalarElem, ScalarElem>>])
          [] src = "retScalar" -> ret(NoValue)
          [] src = "ambient" ->
               [args |-> args, thrown |-> NoThrow,
                value |-> ArgsAsValue(args), storage |-> TRUE]
          [] src \in ConstSources -> ret(LiteralOf(src))
          [] OTHER -> thr([t |-> "Error", message |-> "not callable"])

\* The shape validation accepting any non-empty array.
ShapeErrorFirstElementUnchecked(value) ==
    IF ~value.isArray \/ Len(value.elems) = 0 THEN MsgEmptyResult
    ELSE Null

\* The shape validation of executeJsTransform: the message of the error
\* it throws, or Null when the value is accepted.
ShapeError(value) ==
    IF ~value.isArray \/ Len(value.elems) = 0 THEN MsgEmptyResult
    ELSE IF ~value.elems[1].arr THEN MsgNot2D
    ELSE Null

\* The validation also requiring every row to be an array as wide as the
\* first one.
ExecuteAfterYieldRowsChecked(src, args) ==
    LET run == Invoke(src, args)
        shape == ShapeError(run.value)
        ragged == \E i \in 1 .. Len(run.value.elems) :
                      \/ ~run.value.elems[i].arr
                      \/ Len(run.value.elems[i].cells) #
                             Len(run.value.elems[1].cells)
    IN  IF run.thrown.t # "none"
        THEN [failed |-> TRUE, thrown |-> run.thrown, value |-> NoValue,
              args |-> run.args, storage |-> run.storage]
        ELSE IF shape # Null \/ ragged
        THEN [failed |-> TRUE,
              thrown |-> [t |-> "Error",
                          message |-> IF shape # Null THEN shape
                                      ELSE MsgNot2D],
              value |-> NoValue, args |-> run.args, storage |-> run.storage]
        ELSE [failed |-> FALSE, thrown |-> NoThrow, value |-> run.value,
              args |-> run.args, storage |-> run.storage]

\* The part of executeJsTransform after the yield: invoke and validate.
\* failed: an exception leaves the function; thrown: the value thrown.
ExecuteAfterYield(src, args) ==
    LET run == Invoke(src, args)
        shape == ShapeError(run.value)
    IN  IF run.thrown.t # "none"
        THEN [failed |-> TRUE, thrown |-> run.thrown, value |-> NoValue,
              args |-> run.args, storage |-> run.storage]
        ELSE IF shape # Null
        THEN [failed |-> TRUE,
              thrown |-> [t |-> "Error", message |-> shape],
              value |-> NoValue, args |-> run.args, storage |-> run.storage]
        ELSE [failed |-> FALSE, thrown |-> NoThrow, value |-> run.value,
              args |-> run.args, storage |-> run.storage]

\* executeJsTransform(jsTransformSrc, fullData) as a whole, fullData being
\* table t of hp: the copies, the compilation, the invocation after the
\* yield and the validation.
executeJsTransform(hp, src, t) ==
    IF CompileError(src) # Null
    THEN [failed |-> TRUE,
          thrown |-> [t |-> "Error", message |-> CompileError(src)],
          value |-> NoValue, args |-> CopyArgs(hp, t), storage |-> FALSE]
    ELSE ExecuteAfterYield(src, CopyArgs(hp, t))

\* ------------------------------------------------------ model replies
\* A reply text of the model and what JSON.parse makes of it after the
\* fences are stripped.  json: the text is valid JSON; jsTransform and
\* script: the field's string, or Undefined when the field is absent;
\* transformedData: has tells whether the field is an array, v its
\* elements.
Decoded(text, json, js, script, hasData, data) ==
    [text |-> text, json |-> json, jsTransform |-> js, script |-> script,
     transformedData |-> [has |-> hasData, v |-> data],
     explanation |-> IF json THEN "why" ELSE Undefined]

SomeData == << ArrElem(<<"H1", "H2">>), ArrElem(<<"a", "b">>) >>

\* The sources the relay's replies carry.
ReplySources ==
    {"upper", "mutate", "mutateThrow", "syntaxErr", "throwEmpty",
     "throwStr", "throwNull", "retFlat", "ambient"}

FunctionReplies ==
    {Decoded("{jsTransform:" \o s \o "}", TRUE, s, "Sub()", FALSE, <<>>) :
        s \in ReplySources}

Replies ==
    FunctionReplies \cup
    {Decoded("Sorry, I cannot help.", FALSE, Undefined, Undefined, FALSE, <<>>),
     Decoded("{}", TRUE, Undefined, Undefined, FALSE, <<>>),
     Decoded("{jsTransform:''}", TRUE, "", "Sub()", FALSE, <<>>),
     Decoded("{jsTransform:upper,transformedData}", TRUE, "upper", "Sub()",
             TRUE, SomeData),
     Decoded("{jsTransform:'',transformedData}", TRUE, "", "Sub()",
             TRUE, SomeData),
     Decoded("{transformedData}", TRUE, Undefined, "Sub()", TRUE, SomeData),
     Decoded("{transformedData:[]}", TRUE, Undefined, "Sub()", TRUE, <<>>)}

ReplyTexts == {r.text : r \in Replies}

\* The JSON objects a reply text can decode to, field by field: jsTransform
\* and script absent, null, or a string; transformedData absent, or an
\* array that is empty, flat, or a table.
FieldText(name, v) ==
    IF v = Undefined THEN <<>>
    ELSE IF v = Null THEN <<name \o ": null">>
    ELSE <<name \o ": '" \o v \o "'">>

DataText(hasData, data) ==
    IF hasData
    THEN <<"transformedData: " \o
           LiteralText([isArray |-> TRUE, elems |-> data])>>
    ELSE <<>>

ObjectReply(js, script, hasData, data) ==
    Decoded("{ " \o JoinText(FieldText("jsTransform", js) \o
                            FieldText("script", script) \o
                            DataText(hasData, data), ", ") \o " }",
            TRUE, js, script, hasData, data)

ObjectReplies ==
    {ObjectReply(js, script, d[1], d[2]) :
        js \in {Undefined, Null, "", "upper"},
        script \in {Undefined, Null, "Sub()"},
        d \in {<<FALSE, <<>> >>, <<TRUE, <<>> >>, <<TRUE, <<ScalarElem>> >>,
               <<TRUE, SomeData>>}}

\* Texts that are not JSON.
BrokenReplies ==
    {Decoded(t, FALSE, Undefined, Undefined, FALSE, <<>>) :
        t \in {"I would do it like this: {", "{ jsTransform: 'upper', "}}

AllReplies == Replies \cup ObjectReplies \cup BrokenReplies

AllReplyTexts == {r.text : r \in AllReplies}

\* A raw reply is a sequence of characters in which the JSON text (or the
\* prose standing in its place) is held as one element: such a text begins
\* and ends with a character that is neither white space nor a grave
\* accent nor a letter of the tag, so no pattern below matches inside it.
\* The grave accent is written as an apostrophe, the accent not being a
\* character of a string here.
Accent == "'"

\* The three grave accents of a code fence.
Fence == <<Accent, Accent, Accent>>

\* A reply that is the text alone.
TextOf(body) == <<body>>

\* A reply text inside a code fence, as models tend to send it.
Fenced(body) ==
    Fence \o <<"j", "s", "o", "n", "\n">> \o TextOf(body) \o <<"\n">> \o Fence

\* The characters \s matches, among those of the replies.
WhiteSpace == {" ", "\n", "\t"}

\* The number of white space characters text begins with.
RECURSIVE LeadingSpace(_)
LeadingSpace(text) ==
    IF Len(text) > 0 /\ Head(text) \in WhiteSpace
    THEN 1 + LeadingSpace(Tail(text))
    ELSE 0

\* The number of white space characters text ends with.
RECURSIVE TrailingSpace(_)
TrailingSpace(text) ==
    IF Len(text) > 0 /\ text[Len(text)] \in WhiteSpace
    THEN 1 + TrailingSpace(SubSeq(text, 1, Len(text) - 1))
    ELSE 0

\* String.prototype.trim
Trim(text) ==
    IF LeadingSpace(text) = Len(text) THEN <<>>
    ELSE SubSeq(text, 1 + LeadingSpace(text), Len(text) - TrailingSpace(text))

\* The character a case-insensitive pattern compares.
LowerCase(ch) ==
    CASE ch = "J" -> "j" [] ch = "S" -> "s" [] ch = "O" -> "o"
      [] ch = "N" -> "n" [] OTHER -> ch

\* text holds a fence at position i.
FenceAt(text, i) ==
    /\ i >= 1
    /\ i + 2 <= Len(text)
    /\ SubSeq(text, i, i + 2) = Fence

\* The tag matched in the case it is written in the pattern only.
TagAtCaseSensitive(text, i) ==
    /\ i + 3 <= Len(text)
    /\ SubSeq(text, i, i + 3) = <<"j", "s", "o", "n">>

\* text holds the tag json at position i, in any letter case (flag i).
TagAt(text, i) ==
    /\ i + 3 <= Len(text)
    /\ [k \in 1 .. 4 |-> LowerCase(text[i + k - 1])] = <<"j", "s", "o", "n">>

\* The length of the match of /^'''(?:json)?\s*\n?/i in text, 0 when it
\* does not match: the fence, the tag when it follows, and the white
\* space after them (the greedy \s* leaves no line feed to \n?).
OpeningFence(text) ==
    IF ~FenceAt(text, 1) THEN 0
    ELSE LET tagged == IF TagAt(text, 4) THEN 7 ELSE 3
         IN  tagged + LeadingSpace(SubSeq(text, tagged + 1, Len(text)))

\* The position where the match of /\n?'''\s*$/i begins in text, 0 when
\* there is none: the leftmost position from which an optional line feed,
\* a fence and nothing but white space reach the end.
ClosingFence(text) ==
    LET closes(i) ==
            LET f == IF text[i] = "\n" THEN i + 1 ELSE i
            IN  /\ FenceAt(text, f)
                /\ TrailingSpace(text) >= Len(text) - (f + 2)
        at == {i \in 1 .. Len(text) : closes(i)}
    IN  IF at = {} THEN 0
        ELSE CHOOSE i \in at : \A j \in at : i <= j

\* raw.trim(), the two replace calls and the second trim.
StripFences(raw) ==
    LET trimmed == Trim(raw)
        opened == SubSeq(trimmed, OpeningFence(trimmed) + 1, Len(trimmed))
        closed == IF ClosingFence(opened) = 0 THEN opened
                  ELSE SubSeq(opened, 1, ClosingFence(opened) - 1)
    IN  Trim(closed)

\* JSON.parse of a JSON text or of prose.
JsonParse(text) == CHOOSE r \in AllReplies : r.text = text

\* JSON.parse(cleaned): anything left around the text makes it fail.
JsonParseCleaned(cleaned) ==
    IF Len(cleaned) = 1 /\ cleaned[1] \in AllReplyTexts
    THEN JsonParse(cleaned[1])
    ELSE Decoded("", FALSE, Undefined, Undefined, FALSE, <<>>)

NoParsed ==
    [ok |-> FALSE, jsTransform |-> Null, script |-> Undefined,
     transformedData |-> [has |-> FALSE, v |-> <<>>],
     explanation |-> Undefined]

\* parseTransformResponse accepting a function form without a script.
parseWithoutScriptCheck(raw) ==
    LET parsed == JsonParseCleaned(StripFences(raw))
    IN  IF ~parsed.json THEN NoParsed
        ELSE IF IsString(parsed.jsTransform)
        THEN [ok |-> TRUE, jsTransform |-> parsed.jsTransform,
              script |-> parsed.script,
              transformedData |-> parsed.transformedData,
              explanation |-> parsed.explanation]
        ELSE IF parsed.transformedData.has /\ IsString(parsed.script)
        THEN [ok |-> TRUE, jsTransform |-> Null, script |-> parsed.script,
              transformedData |-> parsed.transformedData,
              explanation |-> IF Truthy(parsed.explanation)
                              THEN parsed.explanation ELSE ""]
        ELSE NoParsed

\* parseTransformResponse: ok is FALSE when it throws.
parseTransformResponse(raw) ==
    LET parsed == JsonParseCleaned(StripFences(raw))
    IN  IF ~parsed.json THEN NoParsed
        ELSE IF IsString(parsed.jsTransform) /\ IsString(parsed.script)
        THEN [ok |-> TRUE, jsTransform |-> parsed.jsTransform,
              script |-> parsed.script,
              transformedData |-> parsed.transformedData,
              explanation |-> parsed.explanation]
        ELSE IF parsed.transformedData.has /\ IsString(parsed.script)
        THEN [ok |-> TRUE, jsTransform |-> Null, script |-> parsed.script,
              transformedData |-> parsed.transformedData,
              explanation |-> IF Truthy(parsed.explanation)
                              THEN parsed.explanation ELSE ""]
        ELSE NoParsed

\* --------------------------------------------------- relay responses
\* What the relay can answer to one call.  net: fetch resolved; json: the
\* body is JSON; html: a body that is not JSON starts with "<"; http: the
\* HTTP status; success, status, error, content: the fields of the JSON
\* body (status 0 and error Undefined when absent).
Response(net, json, html, http, success, status, error, content) ==
    [net |-> net, json |-> json, html |-> html, http |-> http,
     success |-> success, status |-> status, error |-> error,
     content |-> content]

FailedResponses ==
    {Response(FALSE, FALSE, FALSE, 0, FALSE, 0, Undefined, Undefined),
     Response(TRUE, TRUE, FALSE, 429, FALSE, 429, "Rate limited.", Undefined),
     Response(TRUE, TRUE, FALSE, 502, FALSE, 529, "Overloaded", Undefined),
     Response(TRUE, TRUE, FALSE, 400, FALSE, 0,
              "Missing required field: prompt", Undefined)}

Responses ==
    FailedResponses \cup
    {Response(TRUE, TRUE, FALSE, 200, TRUE, 0, Undefined, text) :
        text \in ReplyTexts}

HttpText(http) ==
    CASE http = 200 -> "200"
      [] http = 502 -> "502"
      [] OTHER -> "?"

\* The HTTP status alone, whatever the body reports.
HttpStatusOnly(resp) == resp.http

\* data.status || response.status
EffectiveStatus(resp) == IF resp.status # 0 THEN resp.status ELSE resp.http

\* The part of apiCall after fetch settles (with safeJsonParse): the
\* content returned, or the message of the error thrown.
apiCall(resp) ==
    LET fail(m) == [ok |-> FALSE, message |-> m, content |-> Undefined]
        status == EffectiveStatus(resp)
    IN  IF ~resp.net THEN fail("Failed to fetch")
        ELSE IF ~resp.json
        THEN IF resp.html
             THEN fail("Proxy returned an error page (HTTP " \o
                       HttpText(resp.http) \o "). Check that the Proxy URL " \o
                       "is correct and the proxy service is running.")
             ELSE fail("Unexpected response from proxy (HTTP " \o
                       HttpText(resp.http) \o ").")
        ELSE IF ~resp.success
        THEN IF status = 429 THEN fail(MsgRateLimited)
             ELSE IF status >= 500 THEN fail(MsgUpstream)
             ELSE fail(IF Truthy(resp.error) THEN resp.error
                       ELSE MsgUnknownProxy)
        ELSE [ok |-> TRUE, message |-> "", content |-> resp.content]

\* String(v) as used when a value is appended to a message.
ToText(v) ==
    IF v = Undefined THEN "undefined" ELSE IF v = Null THEN "null" ELSE v

\* ------------------------------------------------------------- proxy
\* The fields of a JSON answer are texts, Undefined for a field that is
\* absent; an HTTP status in a field is written as its digits.
max == 30

allowedOrigins == {"http://localhost:3000", "https://localhost:3000"}

\* A request: its method, its path, its Origin header (Undefined when the
\* header is missing), the address it comes from, and its body: an object
\* with a prompt, an object without one, a text that is not JSON, or none.
Origins == {Undefined, "https://localhost:3000", "https://elsewhere.example"}

ClientIps == {"192.0.2.1", "192.0.2.2"}

SecondClient == "192.0.2.2"

Request(method, path, origin, ip, body) ==
    [method |-> method, path |-> path, origin |-> origin, ip |-> ip,
     body |-> body]

Requests ==
    {Request("GET", "/api/health", o, ip, "none") :
        o \in Origins, ip \in ClientIps} \cup
    {Request("OPTIONS", "/api/transform", o, ip, "none") :
        o \in Origins, ip \in ClientIps} \cup
    {Request("POST", "/api/test", o, ip, "{}") :
        o \in Origins, ip \in ClientIps} \cup
    {Request("POST", "/api/transform", o, ip, b) :
        o \in Origins, ip \in ClientIps,
        b \in {"{prompt}", "{}", "malformed"}}

NoRequest == Request("none", "none", Undefined, "none", "none")

\* What the provider does with a call: an answer with a text, an answer
\* with an error status and message, or no answer at all.
ProviderOk == [ok |-> TRUE, status |-> 200, text |-> "jsTransform: ..."]

ProviderError(status, message) ==
    [ok |-> FALSE, status |-> status, text |-> message]

ProviderUnreachable == [ok |-> FALSE, status |-> 0, text |-> "fetch failed"]

ProviderResults ==
    {ProviderOk, ProviderError(401, "invalid x-api-key"),
     ProviderError(529, "Overloaded"), ProviderUnreachable}

NotCalled == [ok |-> FALSE, status |-> 0 - 1, text |-> ""]

\* An answer: the status code, the kind of body (json, html, empty), the
\* fields of a JSON body, and whether the provider was called for it.
Answer(code, type, success, error, status, content, called) ==
    [code |-> code, type |-> type, success |-> success, error |-> error,
     status |-> status, content |-> content, called |-> called]

\* The request is handed to the next middleware.
next == Answer(0, "next", Undefined, Undefined, Undefined, Undefined, FALSE)

\* res.status(code).json({success: false, error, status})
Failure(code, error, status, called) ==
    Answer(code, "json", "false", error, status, Undefined, called)

\* cors(...): a preflight request is answered by the middleware itself.
cors(req) ==
    IF req.method = "OPTIONS"
    THEN Answer(204, "empty", Undefined, Undefined, Undefined, Undefined,
                FALSE)
    ELSE next

\* express.json(...): a body that is not JSON is an error, which the
\* framework answers with its error page, no error handler being installed.
jsonBodyParser(req) ==
    IF req.body = "malformed"
    THEN Answer(400, "html", Undefined, Undefined, Undefined, Undefined,
                FALSE)
    ELSE next

\* The origin check letting every request through.
originEnforcementOff(req) == next

\* The origin enforcement middleware.
originEnforcement(req) ==
    IF req.method = "GET" \/ req.method = "OPTIONS" THEN next
    ELSE IF req.origin = Undefined \/ req.origin \notin allowedOrigins
    THEN Failure(403, "Forbidden: request origin not allowed.", "403",
                 FALSE)
    ELSE next

\* The limiter refusing from the request after the next one.
limiterRefusesLate(hits) == hits > max + 1

\* rateLimit(...): the request that makes the client's count exceed max
\* is refused.
limiterRefuses(hits) == hits > max

limiterMessage ==
    Failure(429, "Rate limited. Please wait a moment and try again.",
            "429", FALSE)

\* A status code as err.status holds it.
StatusText(code) ==
    CASE code = 400 -> "400" [] code = 401 -> "401" [] code = 500 -> "500"
      [] code = 529 -> "529" [] OTHER -> "?"

\* The catch block of a route with every failure reported as a 500.
providerAnswerAs500(outcome) ==
    IF outcome.ok
    THEN Answer(200, "json", "true", Undefined, Undefined,
                "{" \o outcome.text, TRUE)
    ELSE Failure(500, outcome.text, "500", TRUE)

\* callAI's outcome as the route answers it: the content, or the catch
\* block's answer with err.status || 500.
providerAnswer(outcome) ==
    IF outcome.ok
    THEN Answer(200, "json", "true", Undefined, Undefined,
                "{" \o outcome.text, TRUE)
    ELSE LET status == IF outcome.status = 0 THEN 500 ELSE outcome.status
         IN  Failure(status, outcome.text, StatusText(status), TRUE)

\* app.post('/api/transform', ...)
transform(req, key, outcome) ==
    IF req.body # "{prompt}"
    THEN Failure(400, "Missing required field: prompt", Undefined, FALSE)
    ELSE IF ~key
    THEN Failure(500, "AI_API_KEY is not configured on the server.",
                 Undefined, FALSE)
    ELSE providerAnswer(outcome)

\* app.post('/api/test', ...)
test(req, key, outcome) ==
    IF ~key
    THEN Failure(500, "AI_API_KEY is not configured on the server.",
                 Undefined, FALSE)
    ELSE providerAnswer(outcome)

\* The route of a request the middlewares let through.
Route(req, key, outcome) ==
    CASE req.method = "GET" /\ req.path = "/api/health" ->
           Answer(200, "json", Undefined, Undefined, "ok", Undefined, FALSE)
      [] req.method = "POST" /\ req.path = "/api/test" ->
           test(req, key, outcome)
      [] req.method = "POST" /\ req.path = "/api/transform" ->
           transform(req, key, outcome)
      [] OTHER ->
           Answer(404, "html", Undefined, Undefined, Undefined, Undefined,
                  FALSE)

\* The answer of the middlewares mounted ahead of the limiter, next when
\* all of them hand the request on.
AheadOfLimiter(req) ==
    IF cors(req) # next THEN cors(req)
    ELSE IF jsonBodyParser(req) # next THEN jsonBodyParser(req)
    ELSE originEnforcement(req)

\* The proxy once it listens: whether AI_API_KEY is set, the limiter's
\* count of each client in its current window, the requests of each client
\* handed to the routes in that window, and the latest exchange: the
\* request, what the provider did when it was called, and the answer.
Listening(key) ==
    [key |-> key,
     hits |-> [ip \in ClientIps |-> 0],
     routed |-> [ip \in ClientIps |-> 0],
     req |-> NoRequest,
     outcome |-> NotCalled,
     res |-> next]

\* ------------------------------------------------------------- state
VARIABLES
    heap,             \* the table objects: TableId -> table
    inputData,        \* state.inputData: a TableId, NoTable for null
    outputData,       \* state.outputData
    result,           \* state.result (has = FALSE for null)
    lastJsTransform,  \* state.lastJsTransform
    lastExecError,    \* state.lastExecError
    abortController,  \* state.abortController: the cycle that made it, 0 for null
    dom,              \* the elements of the task pane the handlers set
    storage,          \* localStorage's scriptLanguage entry
    nCycles,          \* runs of runTransform that passed validation so far
    cycle,            \* each such run: its position and its locals
    microtasks,       \* continuations of rejected promises, not yet run
    nCalls,           \* requests issued so far
    failGen,          \* execution failures caught so far
    fixGen,           \* failGen when the latest fix prompt was sent, else -1
    last,             \* how the run that ended most recently ended
    eval,             \* one function of the program applied on its own
    relay             \* the proxy: its key, its limiter, its latest answer

vars ==
    <<heap, inputData, outputData, result, lastJsTransform, lastExecError,
      abortController, dom, storage, nCycles, cycle, microtasks,
      nCalls, failGen, fixGen, last, eval, relay>>

\* The variables of the task pane.
pane ==
    <<heap, inputData, outputData, result, lastJsTransform, lastExecError,
      abortController, dom, storage, nCycles, cycle, microtasks,
      nCalls, failGen, fixGen, last>>

session == <<inputData, outputData, result, lastJsTransform, lastExecError>>

NoResult ==
    [has |-> FALSE, transformedData |-> <<>>, jsTransform |-> Null,
     script |-> Undefined, explanation |-> Undefined]

IdleCycle ==
    [phase |-> "Idle", retryMode |-> FALSE, prompt |-> NoPrompt,
     call |-> "none", reply |-> Undefined, src |-> Null,
     script |-> Undefined, explanation |-> Undefined, args |-> NoArgs,
     superseded |-> FALSE]

\* A run that has ended: its locals are gone.
Ended == [IdleCycle EXCEPT !.phase = "Done", !.call = "settled"]

\* The end of the run that ended most recently, until the next run starts:
\* the run, the state it ended in, the step that ended it (request, parse,
\* nothing, execution, success), and what that step worked on: the reply
\* text, the source, whether the callable was invoked, the value thrown.
NoLast ==
    [c |-> 0, phase |-> "none", how |-> "none", reply |-> Undefined,
     src |-> Null, invoked |-> FALSE, thrown |-> NoThrow, message |-> "",
     fix |-> FALSE, superseded |-> FALSE]

EndOf(c, cyc, phase, how, message) ==
    [NoLast EXCEPT !.c = c, !.phase = phase, !.how = how,
                   !.message = message, !.reply = cyc[c].reply,
                   !.src = cyc[c].src,
                   !.invoked = cyc[c].phase = "Executing",
                   !.fix = cyc[c].prompt.kind = "fix",
                   !.superseded = cyc[c].superseded]

\* No function is applied on its own while the task pane runs.
NoEval == [op |-> "none", done |-> TRUE]

\* The task pane once its script has loaded.
Loaded ==
    /\ heap = InitialHeap
    /\ inputData = NoTable
    /\ outputData = NoTable
    /\ result = NoResult
    /\ lastJsTransform = Null
    /\ lastExecError = Null
    /\ abortController = 0
    /\ dom = [btnTransformDisabled |-> FALSE, btnCancelVisible |-> FALSE,
              btnRetryVisible |-> FALSE, resultsVisible |-> FALSE,
              status |-> [type |-> "none", message |-> ""],
              resultScriptCode |-> ""]
    /\ storage = "VBA"
    /\ nCycles = 0
    /\ cycle = [c \in 1 .. MaxCycles |-> IdleCycle]
    /\ microtasks = <<>>
    /\ nCalls = 0
    /\ failGen = 0
    /\ fixGen = 0 - 1
    /\ last = NoLast

Init == Loaded /\ eval = NoEval /\ relay = Listening(TRUE)

\* showStatus(statusEl, type, message)
showStatus(d, type, message) ==
    [d EXCEPT !.status = [type |-> type, message |-> message]]

\* The finally block leaving the cancel button shown.
FinallyDomKeepsCancel(d) == [d EXCEPT !.btnTransformDisabled = FALSE]

\* The finally block of runTransform, on the task pane.
FinallyDom(d) ==
    [d EXCEPT !.btnTransformDisabled = FALSE, !.btnCancelVisible = FALSE]

\* ------------------------------------------------------- captureData
\* The host's read has resolved with table t: the assignment to the
\* session (the status and preview elements of the capture are left out).
captureData(target, t) ==
    /\ UNCHANGED <<eval, relay>>
    /\ microtasks = <<>>
    /\ IF target = "input"
       THEN /\ t \in InputTables
            /\ inputData' = t
            /\ UNCHANGED outputData
       ELSE /\ t \in OutputTables
            /\ outputData' = t
            /\ UNCHANGED inputData
    /\ UNCHANGED <<heap, result, lastJsTransform, lastExecError,
                   abortController, dom, storage, nCycles, cycle,
                   microtasks, nCalls, failGen, fixGen, last>>

\* ----------------------------------------------------------- apiCall
\* The position of a call of apiCall (field call of a cycle): pending at
\* the await of fetch, body at the await of the body's text, aborted once
\* its controller has aborted it, settled after it returned or threw.
\* The call is in flight while it awaits the network.
InFlight(cyc) == cyc.call \in {"pending", "body"}

\* The timeout timer of the call is set: from setTimeout to the
\* clearTimeout that follows the await of fetch.
TimerArmed(cyc) == cyc.call = "pending"

\* ------------------------------------------------------ runTransform
\* controller.abort() on the controller of cycle k: the signal is aborted
\* and, when the call of k is still pending, its fetch is rejected and the
\* continuation of k is queued.
\* controller.abort() reaching the call only while fetch is awaited.
AbortedCyclesBeforeHeaders(k) ==
    [c \in 1 .. MaxCycles |->
        IF c = k /\ cycle[c].call = "pending"
        THEN [cycle[c] EXCEPT !.call = "aborted"]
        ELSE cycle[c]]

AbortedCycles(k) ==
    [c \in 1 .. MaxCycles |->
        IF c = k /\ InFlight(cycle[c])
        THEN [cycle[c] EXCEPT !.call = "aborted"]
        ELSE cycle[c]]

AbortQueue(k) ==
    IF k # 0 /\ InFlight(cycle[k])
    THEN Append(microtasks, [c |-> k, wasTimeout |-> FALSE])
    ELSE microtasks

\* The fix prompt chosen for every retry-mode run.
UsesFixPromptOnEveryRetry(retryMode) == retryMode

\* The choice between the two prompts.
UsesFixPrompt(retryMode) ==
    retryMode /\ Truthy(lastJsTransform) /\ Truthy(lastExecError)

\* runTransform leaving the retry button as it is on entry.
EntryDomKeepsRetry(d) == [d EXCEPT !.resultsVisible = FALSE]

\* The entry of runTransform on the task pane: the results section and
\* the retry button are hidden.
EntryDom(d) == [d EXCEPT !.resultsVisible = FALSE, !.btnRetryVisible = FALSE]

\* runTransform leaving the transform button enabled during the request.
RequestDomLeavesTransform(d) == [d EXCEPT !.btnCancelVisible = TRUE]

\* runTransform before the request: the transform button is disabled and
\* the cancel button is shown.
RequestDom(d) ==
    [d EXCEPT !.btnTransformDisabled = TRUE, !.btnCancelVisible = TRUE]

\* runTransform reporting every missing capture as a missing input.
ReportMissingDataAsInput(d) == showStatus(d, "error", MsgNoInput)

\* runTransform on missing data: the error shown before it returns.
ReportMissingData(d) ==
    showStatus(d, "error",
               IF inputData = NoTable THEN MsgNoInput ELSE MsgNoOutput)

\* runTransform(retryMode) from its entry to its first await.
runTransform(retryMode) ==
    /\ UNCHANGED <<eval, relay>>
    /\ microtasks = <<>>
    /\ LET d0 == EntryDom(dom)
       IN  IF inputData = NoTable \/ outputData = NoTable
           THEN /\ dom' = ReportMissingData(d0)
                /\ UNCHANGED <<heap, session, abortController, storage,
                               nCycles, cycle, microtasks, nCalls,
                               failGen, fixGen, last>>
           ELSE
             LET n == nCycles + 1
                 fix == UsesFixPrompt(retryMode)
                 prompt ==
                     IF fix
                     THEN buildFixPrompt(heap[inputData], heap[outputData],
                                         lastJsTransform, lastExecError)
                     ELSE buildTransformPrompt(heap[inputData],
                                               heap[outputData])
                 prev == abortController
                 after == AbortedCycles(prev)
             IN  /\ nCycles < MaxCycles
                 /\ nCycles' = n
                 /\ dom' = RequestDom(showStatus(d0, "loading",
                                IF retryMode THEN MsgLoadingFix
                                ELSE MsgLoadingTransform))
                 /\ microtasks' = AbortQueue(prev)
                 /\ abortController' = n
                 /\ cycle' =
                      [c \in 1 .. MaxCycles |->
                          IF c = n
                          THEN [IdleCycle EXCEPT !.phase = "Requesting",
                                                 !.retryMode = retryMode,
                                                 !.prompt = prompt,
                                                 !.call = "pending"]
                          ELSE IF InFlight(cycle[c])
                          THEN [after[c] EXCEPT !.superseded = TRUE]
                          ELSE after[c]]
                 /\ nCalls' = nCalls + 1
                 /\ fixGen' = IF fix THEN failGen ELSE fixGen
                 /\ last' = NoLast
                 /\ UNCHANGED <<heap, session, storage, failGen>>

\* writeResults(mode), the host's write taken as one step: nothing is
\* written without a stored result; the host writes the stored table or
\* fails, and it fails on a table without a first row.
writeResults(mode, hostWrites) ==
    /\ UNCHANGED <<eval, relay>>
    /\ microtasks = <<>>
    /\ IF ~result.has
       THEN UNCHANGED dom
       ELSE LET data == result.transformedData
                written == /\ hostWrites
                           /\ Len(data) > 0
                           /\ data[1].arr
            IN  dom' = IF ~written
                       THEN showStatus(dom, "error", MsgWriteFailed)
                       ELSE IF mode = "newSheet"
                       THEN showStatus(dom, "success", MsgWrittenNewSheet)
                       ELSE showStatus(dom, "success", MsgWrittenSelection)
    /\ UNCHANGED <<heap, session, abortController, storage, nCycles, cycle,
                   microtasks, nCalls, failGen, fixGen, last>>

\* The click handler of the cancel button.
cancelTransform ==
    /\ UNCHANGED <<eval, relay>>
    /\ microtasks = <<>>
    /\ IF abortController # 0
       THEN /\ cycle' = AbortedCycles(abortController)
            /\ microtasks' = AbortQueue(abortController)
            /\ abortController' = 0
       ELSE UNCHANGED <<cycle, microtasks, abortController>>
    /\ UNCHANGED <<heap, session, dom, storage, nCycles, nCalls, failGen,
                   fixGen, last>>

\* ------------------------------------------- the ends of runTransform
\* e.message || 'Transform failed.'
ErrorText(message) == IF Truthy(message) THEN message ELSE MsgTransformFailed

\* The outer catch issuing the call again instead of ending the cycle.
CatchAndRequestAgain(c, message, cyc) ==
    /\ dom' = showStatus(dom, "error", ErrorText(message))
    /\ UNCHANGED abortController
    /\ cycle' = [cyc EXCEPT ![c].call = "pending"]
    /\ last' = EndOf(c, cyc, "Failed", "request", ErrorText(message))

\* The outer catch and the finally block: cycle c ends in Failed.
CatchAndFinally(c, message, cyc) ==
    /\ dom' = FinallyDom(showStatus(dom, "error", ErrorText(message)))
    /\ abortController' = 0
    /\ cycle' = [cyc EXCEPT ![c] = Ended]
    /\ last' = EndOf(c, cyc, "Failed", "request", ErrorText(message))

\* The outer catch dropping the stored result.
OuterCatchDropsResult ==
    /\ result' = NoResult
    /\ UNCHANGED <<heap, inputData, outputData, lastJsTransform,
                   lastExecError>>

\* The outer catch reports the error and assigns nothing of the session.
OuterCatchKeeps == UNCHANGED <<heap, session>>

\* The retry context the catch block of the local execution stores.
\* error: the .message of the thrown value.
StoredContext(src, error) == [lastJsTransform |-> src, lastExecError |-> error]

\* catch (execErr) of the local execution, then the finally block.
\* Reading .message of a thrown null raises a TypeError inside the catch
\* block, after the first assignment; the outer catch reports it.
CatchExecErr(c, thrown, cyc) ==
    LET src == cyc[c].src
        script == cyc[c].script
        ctx == StoredContext(src, thrown.message)
        text == "Local execution failed: " \o ToText(thrown.message)
    IN  /\ lastJsTransform' = ctx.lastJsTransform
        /\ failGen' = failGen + 1
        /\ abortController' = 0
        /\ UNCHANGED result
        /\ IF thrown.t = "null"
           THEN /\ UNCHANGED lastExecError
                /\ dom' = FinallyDom(showStatus(dom, "error",
                                                MsgTypeErrorNull))
                /\ cycle' = [cyc EXCEPT ![c] = Ended]
                /\ last' = [EndOf(c, cyc, "Failed", "execution",
                                   MsgTypeErrorNull)
                            EXCEPT !.thrown = thrown]
           ELSE /\ lastExecError' = ctx.lastExecError
                /\ dom' = FinallyDom(
                      [showStatus(dom, "error", text)
                       EXCEPT !.resultScriptCode =
                                  IF Truthy(script) THEN script ELSE "",
                              !.resultsVisible = TRUE,
                              !.btnRetryVisible = TRUE])
                /\ cycle' = [cyc EXCEPT ![c] = Ended]
                /\ last' = [EndOf(c, cyc, "AwaitingRetry", "execution",
                                   text)
                            EXCEPT !.thrown = thrown]

\* The success block leaving the stored error message in place.
ClearedContextKeepsError(js) ==
    [lastJsTransform |-> IF Truthy(js) THEN js ELSE Null,
     lastExecError |-> lastExecError]

\* What the success block stores as retry context.
ClearedContext(js) ==
    [lastJsTransform |-> IF Truthy(js) THEN js ELSE Null,
     lastExecError |-> Null]

\* The success block of runTransform, then the finally block.
Succeed(c, data, cyc) ==
    LET js == cyc[c].src
        script == cyc[c].script
    IN  /\ result' = [has |-> TRUE, transformedData |-> data,
                      jsTransform |-> IF Truthy(js) THEN js ELSE Null,
                      script |-> script,
                      explanation |-> cyc[c].explanation]
        /\ lastJsTransform' = ClearedContext(js).lastJsTransform
        /\ lastExecError' = ClearedContext(js).lastExecError
        /\ abortController' = 0
        /\ dom' = FinallyDom(
              [showStatus(dom, "success", MsgComplete)
               EXCEPT !.resultScriptCode =
                          IF Truthy(script) THEN script ELSE "",
                      !.resultsVisible = TRUE])
        /\ cycle' = [cyc EXCEPT ![c] = Ended]
        /\ last' = EndOf(c, cyc, "Succeeded", "success", MsgComplete)
        /\ UNCHANGED failGen

\* The catch of apiCall reporting every AbortError as a cancellation.
AbortErrorAlwaysCancelled(wasTimeout) == MsgCancelled

\* The catch of apiCall on an AbortError: the message of the error thrown.
AbortErrorMessage(wasTimeout) ==
    IF wasTimeout THEN MsgTimeout ELSE MsgCancelled

\* A rejected await resumes its cycle: apiCall's catch turns the
\* AbortError into the timeout or the cancellation error.
RunMicrotask ==
    /\ UNCHANGED <<eval, relay>>
    /\ microtasks # <<>>
    /\ LET m == Head(microtasks)
       IN  CatchAndFinally(m.c, AbortErrorMessage(m.wasTimeout), cycle)
    /\ microtasks' = Tail(microtasks)
    /\ OuterCatchKeeps
    /\ UNCHANGED <<storage, nCycles, nCalls, failGen, fixGen>>

\* fetch resolves for the call of cycle c: the response's status line and
\* headers are there, apiCall clears its timer and awaits the body.
HeadersArrive(c) ==
    /\ UNCHANGED <<eval, relay>>
    /\ microtasks = <<>>
    /\ cycle[c].call = "pending"
    /\ cycle' = [cycle EXCEPT ![c].call = "body"]
    /\ UNCHANGED <<heap, session, abortController, dom, storage, nCycles,
                   microtasks, nCalls, failGen, fixGen, last>>

\* The timer of apiCall fires while it is set.
TimerFires(c) ==
    /\ UNCHANGED <<eval, relay>>
    /\ microtasks = <<>>
    /\ InFlight(cycle[c])
    /\ TimerArmed(cycle[c])
    /\ cycle' = [cycle EXCEPT ![c].call = "aborted"]
    /\ microtasks' = Append(microtasks, [c |-> c, wasTimeout |-> TRUE])
    /\ UNCHANGED <<heap, session, abortController, dom, storage, nCycles,
                   nCalls, failGen, fixGen, last>>

NumText(n) ==
    CASE n = 0 -> "0" [] n = 1 -> "1" [] n = 2 -> "2" [] n = 3 -> "3"
      [] OTHER -> "many"

\* The parse-failure branch showing the trimmed, fence-free text.
ShownCleaned(content) == IF content = "{}" THEN content ELSE ""

\* The text the parse-failure branch puts into the script element.
ShownOnParseFailure(content) == content

\* The call of cycle c settles with resp, the body read in full or the
\* network failing at either await: runTransform from the await of
\* apiCall to its end or to the yield of executeJsTransform.
ReplyArrives(c, resp) ==
    /\ UNCHANGED <<eval, relay>>
    /\ microtasks = <<>>
    /\ \/ cycle[c].call = "body"
       \/ cycle[c].call = "pending" /\ ~resp.net
    /\ LET api == apiCall(resp)
           parsed == parseTransformResponse(TextOf(api.content))
           exec == [cycle EXCEPT ![c].reply = api.content,
                               ![c].src = parsed.jsTransform,
                               ![c].script = parsed.script,
                               ![c].explanation = parsed.explanation]
           err == CompileError(parsed.jsTransform)
       IN  IF ~api.ok
           THEN /\ CatchAndFinally(c, api.message, cycle)
                /\ OuterCatchKeeps
                /\ UNCHANGED <<storage, failGen>>
           ELSE IF ~parsed.ok
           THEN /\ dom' = FinallyDom(
                      [showStatus(dom, "error", MsgParseFailed)
                       EXCEPT !.resultScriptCode =
                                  ShownOnParseFailure(api.content),
                              !.resultsVisible = TRUE])
                /\ abortController' = 0
                /\ cycle' = [cycle EXCEPT ![c] = Ended]
                /\ last' = [EndOf(c, cycle, "Failed", "parse",
                                   MsgParseFailed)
                            EXCEPT !.reply = api.content]
                /\ UNCHANGED <<heap, session, storage, failGen>>
           ELSE IF Truthy(parsed.jsTransform)
           THEN IF err # Null
                THEN /\ CatchExecErr(c, [t |-> "Error", message |-> err],
                                     exec)
                     /\ UNCHANGED <<heap, inputData, outputData, storage>>
                ELSE /\ dom' = showStatus(dom, "loading",
                                 "Applying transformation to " \o
                                 NumText(Len(heap[inputData]) - 1) \o
                                 " rows...")
                     /\ cycle' = [exec EXCEPT
                                    ![c].phase = "Executing",
                                    ![c].call = "settled",
                                    ![c].args = CopyArgs(heap, inputData)]
                     /\ UNCHANGED <<heap, session, abortController, storage,
                                    failGen, last>>
           ELSE IF parsed.transformedData.has
           THEN /\ Succeed(c, parsed.transformedData.v, exec)
                /\ UNCHANGED <<heap, inputData, outputData, storage>>
           ELSE /\ dom' = FinallyDom(showStatus(dom, "error",
                                                MsgNoFunctionOrData))
                /\ abortController' = 0
                /\ cycle' = [exec EXCEPT ![c] = Ended]
                /\ last' = EndOf(c, exec, "Failed", "nothing",
                                 MsgNoFunctionOrData)
                /\ UNCHANGED <<heap, session, storage, failGen>>
    /\ UNCHANGED <<nCycles, microtasks, nCalls, fixGen>>

\* The zero-delay timer of executeJsTransform fires: the callable is
\* invoked on the copies taken before the yield, its value validated, and
\* runTransform runs to its end.
ExecResume(c) ==
    /\ UNCHANGED <<eval, relay>>
    /\ microtasks = <<>>
    /\ cycle[c].phase = "Executing"
    /\ LET ex == ExecuteAfterYield(cycle[c].src, cycle[c].args)
       IN  /\ heap' = WrittenThrough(heap, cycle[c].args, ex.args)
           /\ storage' = IF ex.storage THEN "written by transform"
                         ELSE storage
           /\ IF ex.failed
              THEN CatchExecErr(c, ex.thrown, cycle)
              ELSE Succeed(c, ex.value.elems, cycle)
    /\ UNCHANGED <<inputData, outputData, nCycles, microtasks,
                   nCalls, fixGen>>

\* ------------------------------------------------------ specifications
\* The task pane driven by its user: a click reaches a handler only when
\* its button is enabled and shown.
ClickTransform == ~dom.btnTransformDisabled /\ runTransform(FALSE)

ClickRetry == dom.btnRetryVisible /\ runTransform(TRUE)

ClickCancel == dom.btnCancelVisible /\ cancelTransform

Capture == \E target \in {"input", "output"}, t \in TableId :
               captureData(target, t)

Headers == \E c \in 1 .. MaxCycles : HeadersArrive(c)

Reply == \E c \in 1 .. MaxCycles, resp \in Responses : ReplyArrives(c, resp)

Timeout == \E c \in 1 .. MaxCycles : TimerFires(c)

Resume == \E c \in 1 .. MaxCycles : ExecResume(c)

Next ==
    \/ Capture
    \/ ClickTransform
    \/ ClickRetry
    \/ ClickCancel
    \/ RunMicrotask
    \/ Headers
    \/ Reply
    \/ Timeout
    \/ Resume

Spec == Init /\ [][Next]_vars

\* The task pane on a host whose event loop runs every continuation that
\* is due: a rejected await is resumed, a call in flight ends (with its
\* reply or with a network error), and the zero-delay timer of the
\* execution fires, the callable returning or throwing.
\* The relay's answers are one of each way a run can end.
EndingResponses ==
    {r \in Responses :
        \/ ~r.net
        \/ r.content \in {"Sorry, I cannot help.", "{jsTransform:''}",
                          "{transformedData}", "{jsTransform:upper}",
                          "{jsTransform:mutateThrow}",
                          "{jsTransform:throwNull}"}}

ReplyEnding ==
    \E c \in 1 .. MaxCycles, resp \in EndingResponses : ReplyArrives(c, resp)

NextFair ==
    \/ Capture
    \/ ClickTransform
    \/ ClickRetry
    \/ ClickCancel
    \/ RunMicrotask
    \/ Headers
    \/ ReplyEnding
    \/ Timeout
    \/ Resume

SpecFair ==
    /\ Init
    /\ [][NextFair]_vars
    /\ WF_vars(RunMicrotask)
    /\ WF_vars(ReplyEnding)
    /\ WF_vars(Resume)

\* The handlers invoked whatever the buttons show: runTransform may be
\* entered while an earlier run is suspended.
CallRunTransform == \E retryMode \in BOOLEAN : runTransform(retryMode)

\* The answers the relay gives in the re-entrant runs: one of each way a
\* run can end.
DirectResponses ==
    {r \in Responses :
        \/ ~r.net
        \/ r.content \in {"Sorry, I cannot help.", "{jsTransform:upper}",
                          "{jsTransform:mutateThrow}"}}

ReplyDirect ==
    \E c \in 1 .. MaxCycles, resp \in DirectResponses : ReplyArrives(c, resp)

NextDirect ==
    \/ Capture
    \/ CallRunTransform
    \/ cancelTransform
    \/ RunMicrotask
    \/ Headers
    \/ ReplyDirect
    \/ Timeout
    \/ Resume

SpecDirect == Init /\ [][NextDirect]_vars

\* ------------------------------------------------ the write buttons
\* The write buttons stand in the results section: they can be clicked
\* while the section is shown.
ClickWrite ==
    /\ dom.resultsVisible
    /\ \E mode \in {"newSheet", "selection"}, hostWrites \in BOOLEAN :
          writeResults(mode, hostWrites)

NextWrite ==
    \/ Next
    \/ ClickWrite

SpecWrite == Init /\ [][NextWrite]_vars

\* ------------------------------------------- the functions on their own
\* One function of the program applied once to an argument of a bounded
\* set, the task pane being at rest.
NotExecuted ==
    [failed |-> FALSE, thrown |-> NoThrow, value |-> NoValue,
     args |-> NoArgs, storage |-> FALSE]

ExecuteInputs ==
    {[op |-> "executeJsTransform", arg |-> [src |-> src, tbl |-> t],
      done |-> FALSE, out |-> NotExecuted] :
        src \in Sources \cup ConstSources, t \in InputTables}

ApplyExecute ==
    /\ eval.op = "executeJsTransform"
    /\ ~eval.done
    /\ eval' = [eval EXCEPT
                  !.done = TRUE,
                  !.out = executeJsTransform(heap, eval.arg.src,
                                             eval.arg.tbl)]
    /\ UNCHANGED <<pane, relay>>

\* The decimal digits of a natural number, as String(n) gives them.
RECURSIVE IntText(_)
IntText(n) ==
    LET digit(d) == CASE d = 0 -> "0" [] d = 1 -> "1" [] d = 2 -> "2"
                      [] d = 3 -> "3" [] d = 4 -> "4" [] d = 5 -> "5"
                      [] d = 6 -> "6" [] d = 7 -> "7" [] d = 8 -> "8"
                      [] OTHER -> "9"
    IN  IF n < 10 THEN digit(n) ELSE IntText(n \div 10) \o digit(n % 10)

\* A table of a header and n data rows, each row different from the others.
RowsTable(n) ==
    << <<"name">> >> \o [i \in 1 .. n |-> <<"r" \o IntText(i)>>]

\* The numbers of data rows the prompts are built for.
PromptRowCounts ==
    {0, 1, 2, SAMPLE_SIZE - 1, SAMPLE_SIZE, SAMPLE_SIZE + 1, 10 * SAMPLE_SIZE}

TransformPromptInputs ==
    {[op |-> "buildTransformPrompt", arg |-> [n |-> n], done |-> FALSE,
      out |-> NoPrompt] : n \in PromptRowCounts}

ApplyTransformPrompt ==
    /\ eval.op = "buildTransformPrompt"
    /\ ~eval.done
    /\ eval' = [eval EXCEPT
                  !.done = TRUE,
                  !.out = buildTransformPrompt(RowsTable(eval.arg.n),
                                               heap[3])]
    /\ UNCHANGED <<pane, relay>>

FixPromptInputs ==
    {[op |-> "buildFixPrompt",
      arg |-> [n |-> n, failedFunction |-> src, errorMessage |-> "boom"],
      done |-> FALSE, out |-> NoPrompt] :
        n \in PromptRowCounts, src \in {"mutateThrow", "retFlat"}}

ApplyFixPrompt ==
    /\ eval.op = "buildFixPrompt"
    /\ ~eval.done
    /\ eval' = [eval EXCEPT
                  !.done = TRUE,
                  !.out = buildFixPrompt(RowsTable(eval.arg.n), heap[3],
                                         eval.arg.failedFunction,
                                         eval.arg.errorMessage)]
    /\ UNCHANGED <<pane, relay>>

\* The cells arrayToCsv is given one at a time: every string of at most
\* MaxCellLen characters over a letter, the comma, the quote and the
\* newline, and the cells that are not strings.
CsvChars == {"a", ",", "\"", "\n"}

CsvCells ==
    {StringCell(str) :
        str \in UNION {[1 .. n -> CsvChars] : n \in 0 .. MaxCellLen}} \cup
    {NullCell, UndefinedCell, NumberCell(0), NumberCell(12),
     BooleanCell(FALSE), BooleanCell(TRUE)}

\* Cells whose text holds no comma, quote or newline.
PlainCells ==
    {StringCell(<<>>), StringCell(<<"a">>), StringCell(<<"a", "b">>),
     NullCell, NumberCell(0), BooleanCell(FALSE)}

\* The tables arrayToCsv is given: one cell of any kind, or up to two rows
\* of up to two plain cells (a range of the host has a row and a column
\* at least).
CsvTables ==
    {<< <<c>> >> : c \in CsvCells} \cup
    UNION {[1 .. rows -> [1 .. cols -> PlainCells]] :
              rows \in 1 .. 2, cols \in 1 .. 2}

CsvInputs ==
    {[op |-> "arrayToCsv", arg |-> t, done |-> FALSE, out |-> <<>>] :
        t \in CsvTables}

ApplyCsv ==
    /\ eval.op = "arrayToCsv"
    /\ ~eval.done
    /\ eval' = [eval EXCEPT !.done = TRUE, !.out = arrayToCsv(eval.arg)]
    /\ UNCHANGED <<pane, relay>>

\* The white space put around a text and its fences, and the fences put
\* around a text: none, or three grave accents with or without the tag.
SpaceRuns == {<<>>, <<"\n">>, <<" ", "\n">>}

OpeningFences ==
    {<<>>, Fence, Fence \o <<"j", "s", "o", "n">>,
     Fence \o <<"J", "S", "O", "N">>, Fence \o <<"J", "s", "o", "n">>}

ClosingFences == {<<>>, Fence}

Wrappings ==
    [lead : SpaceRuns, open : OpeningFences, before : SpaceRuns,
     after : SpaceRuns, close : ClosingFences, trail : SpaceRuns]

Wrapped(w, body) ==
    w.lead \o w.open \o w.before \o TextOf(body) \o w.after \o w.close \o
    w.trail

\* The replies parsed in every wrapping: each form, and two rejected.
WrappedReplies ==
    {ObjectReply("upper", "Sub()", FALSE, <<>>),
     ObjectReply(Undefined, "Sub()", TRUE, SomeData),
     ObjectReply("upper", Undefined, FALSE, <<>>)} \cup
    {Decoded("I would do it like this: {", FALSE, Undefined, Undefined,
             FALSE, <<>>)}

ParseInputs ==
    {[op |-> "parseTransformResponse",
      arg |-> [raw |-> IF fenced THEN Fenced(r.text) ELSE TextOf(r.text),
               decoded |-> r],
      done |-> FALSE, out |-> NoParsed] :
        r \in ObjectReplies \cup BrokenReplies, fenced \in BOOLEAN} \cup
    {[op |-> "parseTransformResponse",
      arg |-> [raw |-> Wrapped(w, r.text), decoded |-> r],
      done |-> FALSE, out |-> NoParsed] :
        r \in WrappedReplies, w \in Wrappings}

ApplyParse ==
    /\ eval.op = "parseTransformResponse"
    /\ ~eval.done
    /\ eval' = [eval EXCEPT !.done = TRUE,
                            !.out = parseTransformResponse(eval.arg.raw)]
    /\ UNCHANGED <<pane, relay>>

\* The bodies with which the relay reports a failure, under each HTTP
\* status: the body's status absent (0) or a number, its error text
\* absent, empty or a text.
RefusedResponses ==
    {Response(TRUE, TRUE, FALSE, http, FALSE, status, error, Undefined) :
        http \in {400, 403, 429, 500, 502},
        status \in {0, 400, 403, 429, 500, 529},
        error \in {Undefined, "", "Missing required field: prompt",
                   "Overloaded"}}

CallInputs ==
    {[op |-> "apiCall", arg |-> resp, done |-> FALSE,
      out |-> [ok |-> FALSE, message |-> "", content |-> Undefined]] :
        resp \in RefusedResponses \cup Responses}

ApplyCall ==
    /\ eval.op = "apiCall"
    /\ ~eval.done
    /\ eval' = [eval EXCEPT !.done = TRUE, !.out = apiCall(eval.arg)]
    /\ UNCHANGED <<pane, relay>>

\* ------------------------------------------------ the proxy's requests
\* The proxy handles a request: the middlewares in the order they are
\* mounted, then the route; the provider's outcome is drawn only for a
\* request that reaches callAI.
Handle(req) ==
    LET ahead == AheadOfLimiter(req)
        hits == relay.hits[req.ip] + 1
        refused == ahead = next /\ limiterRefuses(hits)
        routed == ahead = next /\ ~refused
    IN  /\ ahead = next => relay.hits[req.ip] < max + MaxOver
        /\ req.ip = SecondClient => relay.hits[req.ip] < MaxSecond
        /\ \E outcome \in ProviderResults \cup {NotCalled} :
              LET res == IF ahead # next THEN ahead
                         ELSE IF refused THEN limiterMessage
                         ELSE Route(req, relay.key, outcome)
              IN  /\ outcome = NotCalled <=>
                        ~(routed /\ Route(req, relay.key, ProviderOk).called)
                  /\ relay' =
                        [relay EXCEPT
                           !.hits[req.ip] = IF ahead = next THEN hits ELSE @,
                           !.routed[req.ip] = IF routed THEN @ + 1 ELSE @,
                           !.req = req,
                           !.outcome = outcome,
                           !.res = res]
        /\ UNCHANGED <<pane, eval>>

\* The window of a client ends: the limiter forgets its count.
WindowEnds(ip) ==
    /\ relay.hits[ip] > 0
    /\ relay' = [relay EXCEPT !.hits[ip] = 0, !.routed[ip] = 0]
    /\ UNCHANGED <<pane, eval>>

Serve == \E req \in Requests : Handle(req)

Reset == \E ip \in ClientIps : WindowEnds(ip)

InitRelay ==
    /\ Loaded
    /\ eval = NoEval
    /\ \E key \in BOOLEAN : relay = Listening(key)

NextRelay ==
    \/ Serve
    \/ Reset

SpecRelay == InitRelay /\ [][NextRelay]_vars

InitEval ==
    /\ Loaded
    /\ relay = Listening(TRUE)
    /\ \/ eval \in ExecuteInputs
       \/ eval \in ParseInputs
       \/ eval \in CallInputs
       \/ eval \in TransformPromptInputs
       \/ eval \in FixPromptInputs
       \/ eval \in CsvInputs

NextEval ==
    \/ ApplyExecute
    \/ ApplyParse
    \/ ApplyCall
    \/ ApplyTransformPrompt
    \/ ApplyFixPrompt
    \/ ApplyCsv

SpecEval == InitEval /\ [][NextEval]_vars

\* -------------------------------------------------------------- claims
Cycles == 1 .. MaxCycles

\* Cycle c ends in this step.
Ends(c) == cycle[c].phase \in {"Requesting", "Executing"}
           /\ cycle'[c].phase = "Done"

\* A run of runTransform passes validation and issues its call in this
\* step.
Starts == nCycles' = nCycles + 1

Observable == <<result, lastJsTransform, lastExecError, abortController, dom>>

\* C1: a run whose call was pending when a later run started never parses
\* or executes a reply, and its end changes nothing observable: the result,
\* the retry context, the in-flight handle, the status and the buttons are
\* those of the later run.
C1_SupersededRunIsSilent ==
    [][\A c \in Cycles :
          (cycle[c].superseded /\ Ends(c)) =>
              /\ last'.how = "request"
              /\ UNCHANGED Observable]_vars

\* C2: at most one network call that has not been aborted is pending.
C2_AtMostOneLiveCall ==
    Cardinality({c \in Cycles : InFlight(cycle[c])}) <= 1

\* C3: a run whose local execution failed ended in AwaitingRetry, with the
\* retry offered and the retry context holding the source of that reply
\* and the message of that failure.
C3_ExecutionFailureAwaitsRetry ==
    last.how = "execution" =>
        /\ last.phase = "AwaitingRetry"
        /\ dom.btnRetryVisible
        /\ lastJsTransform = last.src
        /\ lastExecError = last.thrown.message

\* C4: a retry taken after an execution failure issues one request, whose
\* prompt is the fix prompt embedding the failed source and the error
\* message of that failure.
C4_RetrySendsFixPrompt ==
    [][(last.how = "execution" /\ Starts /\ cycle'[nCycles'].retryMode) =>
          /\ nCalls' = nCalls + 1
          /\ cycle'[nCycles'].prompt.kind = "fix"
          /\ cycle'[nCycles'].prompt.failedFunction = last.src
          /\ cycle'[nCycles'].prompt.errorMessage = last.thrown.message]_vars

\* C5: a fix prompt is never built from a retry context that an earlier
\* fix prompt was built from: between two fix requests a new execution
\* failure has been caught.
C5_ContextSeedsOneFix ==
    [][(Starts /\ cycle'[nCycles'].prompt.kind = "fix") =>
          fixGen # failGen]_vars

C5_Witness ==
    /\ nCycles = 3
    /\ failGen = 1
    /\ fixGen = 1
    /\ cycle[2].phase = "Done"
    /\ cycle[3].phase = "Requesting"
    /\ Truthy(lastJsTransform)
    /\ Truthy(lastExecError)

\* C6: after a run whose local execution succeeded, the run is Succeeded,
\* no error message and no failed source are stored, and a retry-mode run
\* would build the transform prompt.
C6_SuccessClearsContext ==
    (last.how = "success" /\ Truthy(last.src)) =>
        /\ last.phase = "Succeeded"
        /\ lastExecError = Null
        /\ lastJsTransform = last.src
        /\ ~UsesFixPrompt(TRUE)

C6_Witness ==
    /\ last.how = "success"
    /\ Truthy(last.src)
    /\ last.fix
    /\ failGen >= 1

\* C7: every run has issued exactly one call, and after a run whose call
\* failed the run is Failed, the status shows that one message and no call
\* is pending.
C7_NoAutomaticRetry ==
    /\ nCalls = nCycles
    /\ last.how = "request" =>
          /\ last.phase = "Failed"
          /\ dom.status = [type |-> "error", message |-> last.message]
          /\ \A c \in Cycles : ~InFlight(cycle[c])

C7_Witness ==
    /\ last.how = "request"
    /\ last.message = MsgRateLimited
    /\ nCalls = 2

C9_CallerTableUnchanged == heap = InitialHeap

C9_Witness ==
    /\ last.how = "success"
    /\ last.src = "mutate"
    /\ result.transformedData[1].cells[1] = "x"
    /\ heap[inputData][1][1] = "name"

\* C10: the step that invokes the callable changes nothing outside the
\* session's outcome: the host's storage is as it was.
C10_CallableReachesOnlyArguments ==
    [][\A c \in Cycles :
          (cycle[c].phase = "Executing" /\ Ends(c)) =>
              storage' = storage]_vars

\* The value has the shape of a table: an array that is not empty and whose
\* first element is an array.
WellShaped(v) == v.isArray /\ Len(v.elems) > 0 /\ v.elems[1].arr

\* C11: executeJsTransform returns exactly the value the callable returned
\* when that value is a non-empty array whose first element is an array,
\* and in every other case throws one of its two shape errors.
C11_ShapeValidation ==
    (eval.op = "executeJsTransform" /\ eval.done
     /\ eval.arg.src \in ConstSources) =>
        LET v == LiteralOf(eval.arg.src)
        IN  /\ ~eval.out.failed <=> WellShaped(v)
            /\ ~eval.out.failed => eval.out.value = v
            /\ eval.out.failed =>
                  /\ eval.out.thrown.t = "Error"
                  /\ eval.out.thrown.message \in {MsgEmptyResult, MsgNot2D}

C11_Witness ==
    /\ eval.op = "executeJsTransform"
    /\ eval.done
    /\ eval.arg.src = "(header, rows) => [1,1,1]"
    /\ eval.out.failed
    /\ eval.out.thrown.message = MsgNot2D

\* The table with every cell in upper case.
UpperTable(table) ==
    [i \in 1 .. Len(table) |->
        ArrElem([j \in 1 .. Len(table[i]) |-> Upper(table[i][j])])]

\* C12: the step that ends a run on a successful execution of the
\* upper-casing source stores the upper-cased header and all data rows of
\* the input table the execution was given, however many rows the prompt
\* sampled; for [[name],[alice],[bob]] that is [[NAME],[ALICE],[BOB]].
C12_FullTableIsTransformed ==
    [][\A c \in Cycles :
          (cycle[c].phase = "Executing" /\ cycle[c].src = "upper"
           /\ Ends(c)) =>
              /\ result'.has
              /\ result'.transformedData = UpperTable(heap[cycle[c].args.tbl])
              /\ cycle[c].args.tbl = 1 =>
                    result'.transformedData =
                        << ArrElem(<<"NAME">>), ArrElem(<<"ALICE">>),
                           ArrElem(<<"BOB">>) >>]_vars

C12_Witness ==
    /\ last.how = "success"
    /\ last.src = "upper"
    /\ result.has
    /\ Len(result.transformedData) = SAMPLE_SIZE + 2
    /\ Len(SampleRows(heap[2])) = SAMPLE_SIZE + 1

\* The reply of the run that ended last carries a string jsTransform, a
\* string script and an array transformedData.
LastReplyHasBoth ==
    /\ last.reply \in ReplyTexts
    /\ JsonParse(last.reply).json
    /\ IsString(JsonParse(last.reply).jsTransform)
    /\ IsString(JsonParse(last.reply).script)
    /\ JsonParse(last.reply).transformedData.has

\* The run that ended last worked on the source of its reply: it ended on
\* the local execution, and a successful one invoked the callable and
\* stored a table that is not the transformedData of the reply.
LastRunExecutedSource ==
    /\ last.how \in {"success", "execution"}
    /\ last.src = JsonParse(last.reply).jsTransform
    /\ last.how = "success" =>
          /\ last.invoked
          /\ result.jsTransform = last.src
          /\ result.transformedData #
                 JsonParse(last.reply).transformedData.v

\* C13: a run whose reply carries both forms executes the source and
\* never stores the reply's table.
C13_BothFormsExecuteSource ==
    (last.c # 0 /\ LastReplyHasBoth) => LastRunExecutedSource

C15_CallInFlightHasItsTimer ==
    /\ CLIENT_TIMEOUT_MS < GatewayReadTimeoutMs
    /\ \A c \in Cycles : InFlight(cycle[c]) => TimerArmed(cycle[c])

\* The rejections queued for cycle c.
Rejections(queue, c) == SelectSeq(queue, LAMBDA m : m.c = c)

\* C16: a call in flight is aborted by whichever of the timer and the
\* cancel signal comes first, and one rejection is queued for it; an
\* aborted call is never aborted or settled otherwise again; and the run
\* ends in Failed with the timeout message when the timer came first and
\* with the cancellation message when the signal did.
C16_FirstAbortDecides ==
    [][\A c \in Cycles :
          /\ (InFlight(cycle[c]) /\ cycle'[c].call = "aborted") =>
                /\ Rejections(microtasks, c) = <<>>
                /\ Len(Rejections(microtasks', c)) = 1
                /\ Rejections(microtasks', c)[1].wasTimeout =
                      (abortController' = abortController
                       /\ nCycles' = nCycles)
          /\ cycle[c].call = "aborted" =>
                /\ Len(Rejections(microtasks, c)) = 1
                /\ \/ cycle'[c] = cycle[c] /\ microtasks' = microtasks
                   \/ /\ Ends(c)
                      /\ Rejections(microtasks', c) = <<>>
                      /\ last'.phase = "Failed"
                      /\ last'.how = "request"
                      /\ last'.message =
                            IF Rejections(microtasks, c)[1].wasTimeout
                            THEN MsgTimeout ELSE MsgCancelled
                      /\ dom'.status.message = last'.message]_vars

C16_Witness ==
    /\ last.how = "request"
    /\ last.message = MsgTimeout
    /\ dom.status = [type |-> "error", message |-> MsgTimeout]
    /\ abortController = 0
    /\ \A c \in Cycles : ~InFlight(cycle[c])

\* apiCall has been applied to a JSON body that does not report success.
CallRefused == eval.op = "apiCall" /\ eval.done /\ eval.arg.net
               /\ eval.arg.json /\ ~eval.arg.success

\* The status the classification goes by: the one the body reports, the
\* HTTP status when the body reports none.
ReportedStatus ==
    IF eval.arg.status # 0 THEN eval.arg.status ELSE eval.arg.http

\* The call failed with the rate-limit message for status 429 and with the
\* upstream message for a status of 500 or more.
ClassifiedByStatus ==
    /\ ~eval.out.ok
    /\ ReportedStatus = 429 => eval.out.message = MsgRateLimited
    /\ (ReportedStatus # 429 /\ ReportedStatus >= 500) =>
          eval.out.message = MsgUpstream

LateCancel ==
    /\ abortController # 0
    /\ abortController' = 0
    /\ cycle[abortController].phase = "Executing"
    /\ cycle'[abortController].phase = "Executing"

\* C18: a cancel taken while the execution is suspended changes nothing but
\* the handle, and the run it came too late for still invokes the callable
\* on the copies it took and ends in Succeeded with the callable's table
\* or in AwaitingRetry with the failure's source and message.
C18_LateCancelHasNoEffect ==
    [][/\ LateCancel =>
             /\ cycle' = cycle
             /\ microtasks' = microtasks
             /\ UNCHANGED <<heap, session, dom, storage, last>>
       /\ \A c \in Cycles :
             (cycle[c].phase = "Executing" /\ abortController = 0
              /\ Ends(c)) =>
                 LET ex == ExecuteAfterYield(cycle[c].src, cycle[c].args)
                 IN  IF ex.failed
                     THEN /\ last'.phase = "AwaitingRetry"
                          /\ lastJsTransform' = cycle[c].src
                          /\ lastExecError' = ex.thrown.message
                          /\ dom'.btnRetryVisible
                     ELSE /\ last'.phase = "Succeeded"
                          /\ result'.has
                          /\ result'.transformedData = ex.value.elems
                          /\ result'.jsTransform = cycle[c].src]_vars

\* C19: every run that has issued its call ends, and the step that ends it
\* leaves it in Succeeded, AwaitingRetry or Failed with the transform
\* button enabled, the cancel button hidden and the in-flight handle empty.
C19_EveryRunEndsReady ==
    /\ \A c \in Cycles :
          (cycle[c].phase \in {"Requesting", "Executing"})
              ~> (cycle[c].phase = "Done")
    /\ [][\A c \in Cycles :
             Ends(c) =>
                 /\ last'.c = c
                 /\ last'.phase \in {"Succeeded", "AwaitingRetry", "Failed"}
                 /\ ~dom'.btnTransformDisabled
                 /\ ~dom'.btnCancelVisible
                 /\ abortController' = 0]_vars

C19_Witness ==
    /\ last.c = MaxCycles
    /\ cycle[last.c].phase = "Done"
    /\ last.phase = "AwaitingRetry"
    /\ ~dom.btnTransformDisabled
    /\ ~dom.btnCancelVisible
    /\ abortController = 0

\* C20: when a run ends on an execution failure while the retry context of
\* an earlier execution failure is held, the one context held afterwards
\* is the source and the message of the later failure.
C20_ContextOfLaterFailure ==
    [][\A c \in Cycles :
          (Ends(c) /\ last'.how = "execution"
           /\ Truthy(lastJsTransform) /\ Truthy(lastExecError)
           /\ failGen >= 1) =>
              /\ lastJsTransform' = last'.src
              /\ lastExecError' = last'.thrown.message]_vars

\* The prompt embeds the header and the first min(n, 50) data rows of the
\* table of n data rows, in the table's order.
EmbedsSampleOf(prompt, n) ==
    /\ Len(prompt.sample) = 1 + Min(n, 50)
    /\ \A i \in 1 .. Len(prompt.sample) : prompt.sample[i] = RowsTable(n)[i]

ExpectedText(cell) ==
    CASE cell.t \in {"null", "undefined"} -> <<>>
      [] cell.t = "string" -> cell.s
      [] cell.t = "boolean" ->
           IF cell.b THEN <<"t", "r", "u", "e">>
           ELSE <<"f", "a", "l", "s", "e">>
      [] OTHER -> DigitsOf(cell.n)

NeedsQuoting(str) ==
    \E i \in 1 .. Len(str) : str[i] \in {",", "\"", "\n"}

RECURSIVE Undouble(_)
\* The text a quoted field's inside decodes to: each pair of quotes is one
\* quote; a quote that is not doubled decodes to nothing a cell can hold.
Undouble(body) ==
    IF body = <<>> THEN <<>>
    ELSE IF Head(body) # "\"" THEN <<Head(body)>> \o Undouble(Tail(body))
    ELSE IF Len(body) >= 2 /\ body[2] = "\""
         THEN <<"\"">> \o Undouble(Tail(Tail(body)))
    ELSE <<"<lone quote>">>

\* The table given to arrayToCsv is one cell.
OneCell ==
    /\ eval.op = "arrayToCsv"
    /\ eval.done
    /\ Len(eval.arg) = 1
    /\ Len(eval.arg[1]) = 1

\* C23: the field of a cell is the cell's string form between two double
\* quotes, every quote inside doubled, exactly when the string form holds a
\* comma, a double quote or a newline; otherwise it is the string form.
C23_QuotedIffSpecialCharacter ==
    OneCell =>
        LET str == ExpectedText(eval.arg[1][1])
            out == eval.out
        IN  IF NeedsQuoting(str)
            THEN /\ Len(out) >= 2
                 /\ out[1] = "\""
                 /\ out[Len(out)] = "\""
                 /\ Undouble(SubSeq(out, 2, Len(out) - 1)) = str
            ELSE out = str

C23_Witness ==
    /\ OneCell
    /\ eval.arg[1][1] = StringCell(<<"\"", "\n">>)
    /\ eval.out = <<"\"", "\"", "\"", "\n", "\"">>

RECURSIVE Split(_, _)
\* String.prototype.split on a one-character separator.
Split(chars, sep) ==
    IF \A i \in 1 .. Len(chars) : chars[i] # sep THEN <<chars>>
    ELSE LET i == CHOOSE k \in 1 .. Len(chars) :
                      /\ chars[k] = sep
                      /\ \A j \in 1 .. k - 1 : chars[j] # sep
         IN  <<SubSeq(chars, 1, i - 1)>>
             \o Split(SubSeq(chars, i + 1, Len(chars)), sep)

\* No cell of the table holds a comma, a double quote or a newline.
PlainTable(table) ==
    \A r \in 1 .. Len(table) : \A c \in 1 .. Len(table[r]) :
        ~NeedsQuoting(ExpectedText(table[r][c]))

\* C24: for a table whose cells hold no comma, double quote or newline,
\* splitting the encoding on newlines and each line on commas gives the
\* table's rows back, each cell as its string form.
C24_NaiveSplitRoundTrip ==
    (eval.op = "arrayToCsv" /\ eval.done /\ PlainTable(eval.arg)) =>
        LET lines == Split(eval.out, "\n")
        IN  /\ Len(lines) = Len(eval.arg)
            /\ \A r \in 1 .. Len(eval.arg) :
                  LET fields == Split(lines[r], ",")
                  IN  /\ Len(fields) = Len(eval.arg[r])
                      /\ \A c \in 1 .. Len(eval.arg[r]) :
                            fields[c] = ExpectedText(eval.arg[r][c])

C24_Witness ==
    /\ eval.op = "arrayToCsv"
    /\ eval.done
    /\ eval.arg = << <<StringCell(<<"a">>), NullCell>>,
                     <<NumberCell(0), StringCell(<<"a", "b">>)>> >>
    /\ eval.out = <<"a", ",", "\n", "0", ",", "a", "b">>

\* C25: a null or an absent cell is rendered as the empty string, never as
\* the text null or undefined; every other cell, false and 0 among them, is
\* rendered as its string form.
C25_NullIsEmptyFalsyIsText ==
    OneCell =>
        LET cell == eval.arg[1][1]
        IN  /\ cell \in {NullCell, UndefinedCell} => eval.out = <<>>
            /\ cell = BooleanCell(FALSE) =>
                  eval.out = <<"f", "a", "l", "s", "e">>
            /\ cell = BooleanCell(TRUE) => eval.out = <<"t", "r", "u", "e">>
            /\ cell = NumberCell(0) => eval.out = <<"0">>
            /\ cell = NumberCell(12) => eval.out = <<"1", "2">>
            /\ (cell.t = "string" /\ ~NeedsQuoting(cell.s)) =>
                  eval.out = cell.s

C25_Witness ==
    /\ OneCell
    /\ eval.arg[1][1] = BooleanCell(FALSE)
    /\ eval.out = <<"f", "a", "l", "s", "e">>

\* The request's Origin header names an allowed origin.
OriginAllowed(req) ==
    req.origin \in {"http://localhost:3000", "https://localhost:3000"}

\* The request has a body that is not JSON.
BodyRejected(req) == req.body = "malformed"

ReachesLimiter(req) ==
    \/ req.method = "GET"
    \/ req.method = "POST" /\ OriginAllowed(req) /\ ~BodyRejected(req)

\* The latest request came from a client whose count in the current window
\* exceeds the limit.
BeyondLimit ==
    /\ relay.req.ip \in ClientIps
    /\ relay.hits[relay.req.ip] > 30

TooManyRequests ==
    /\ relay.res.code = 429
    /\ relay.res.success = "false"
    /\ relay.res.status = "429"
    /\ ~relay.res.called

TransformRequested ==
    /\ relay.req.method = "POST"
    /\ relay.req.path = "/api/transform"

\* The answer is {success: true, content} or {success: false, error, status?}.
AnswerShaped ==
    /\ relay.res.type = "json"
    /\ \/ /\ relay.res.success = "true"
          /\ relay.res.content # Undefined
          /\ relay.res.error = Undefined
       \/ /\ relay.res.success = "false"
          /\ relay.res.error # Undefined
          /\ relay.res.content = Undefined

\* The provider is called only for a request with a prompt on a server
\* with a key; a request that reaches the route without one of them is
\* answered 400 or 500 with success false; a failure of the provider is
\* returned with the provider's status code, 500 when it gave none.
ProviderCalledWhenDue ==
    /\ relay.res.called => relay.req.body = "{prompt}" /\ relay.key
    /\ (relay.res.code \notin {403, 429} /\ relay.res.type = "json"
        /\ relay.req.body # "{prompt}") =>
          /\ relay.res.code = 400
          /\ relay.res.success = "false"
          /\ ~relay.res.called
    /\ (relay.res.code \notin {403, 429} /\ relay.res.type = "json"
        /\ relay.req.body = "{prompt}" /\ ~relay.key) =>
          /\ relay.res.code = 500
          /\ relay.res.success = "false"
          /\ ~relay.res.called
    /\ (relay.res.called /\ ~relay.outcome.ok) =>
          /\ relay.res.success = "false"
          /\ relay.res.error = relay.outcome.text
          /\ relay.res.code =
                IF relay.outcome.status = 0 THEN 500
                ELSE relay.outcome.status
    /\ (relay.res.called /\ relay.outcome.ok) =>
          /\ relay.res.code = 200
          /\ relay.res.success = "true"

Underway == {c \in Cycles : cycle[c].phase \in {"Requesting", "Executing"}}

\* C29: while a run has issued its call and has not ended, the transform
\* button is disabled and the retry button is not shown, and no second run
\* is underway.
C29_NoSecondRunWhileUnderway ==
    Underway # {} =>
        /\ dom.btnTransformDisabled
        /\ ~dom.btnRetryVisible
        /\ Cardinality(Underway) = 1

C29_Witness ==
    \E c \in Underway :
        /\ cycle[c].retryMode
        /\ cycle[c].phase = "Executing"
        /\ dom.btnTransformDisabled
        /\ ~dom.btnRetryVisible

\* The header and the leading rows of the arguments a run executes on, as
\* many as a prompt samples.
SampleOfArgs(args) ==
    <<args.header.cells>> \o
    [i \in 1 .. Min(Len(args.rows), 50) |-> args.rows[i].cells]

\* C30: the table a run executes the callable on is the table the run
\* sampled into its prompt, whatever was captured while its call or its
\* yield was pending.
C30_ExecutesOnTheTableOfItsPrompt ==
    \A c \in Cycles :
        cycle[c].phase = "Executing" =>
            SampleOfArgs(cycle[c].args) = cycle[c].prompt.sample

\* C31: after a run that ended in Succeeded the stored transformed table is
\* a non-empty sequence whose first element is a sequence, whether the
\* callable returned it or the reply carried it.
C31_SucceededTableIsShaped ==
    last.phase = "Succeeded" =>
        /\ result.has
        /\ Len(result.transformedData) > 0
        /\ result.transformedData[1].arr

\* The step is a write of the stored table to the host.
Writes ==
    /\ dom'.status # dom.status
    /\ dom'.status.message \in {MsgWrittenNewSheet, MsgWrittenSelection}

\* C32: a write writes the table of the run that ended most recently: the
\* run ended in Succeeded and the stored table is the one it produced;
\* after a run that ended in Failed or AwaitingRetry nothing left over from
\* an earlier run is written.
C32_WriteWritesLatestRunsTable ==
    [][Writes => last.phase = "Succeeded"]_vars

\* The call of run c was aborted by the cancel signal and its rejection has
\* not been handled yet.
CancelledInFlight(c) ==
    /\ cycle[c].call = "aborted"
    /\ Rejections(microtasks, c) = <<[c |-> c, wasTimeout |-> FALSE]>>

\* C33: while the call of a run is in flight the cancel button is shown and
\* the in-flight handle is that run's; a cancel taken then aborts that call;
\* the run ends, in Failed with the cancellation message, no reply of it
\* parsed and nothing executed or stored.
C33_CancelReachesTheCallInFlight ==
    /\ [](\A c \in Cycles :
             InFlight(cycle[c]) =>
                 abortController = c /\ dom.btnCancelVisible)
    /\ [][\A c \in Cycles :
             /\ (InFlight(cycle[c]) /\ abortController' = 0 /\ ~Ends(c)) =>
                   CancelledInFlight(c)'
             /\ (CancelledInFlight(c) /\ cycle'[c] # cycle[c]) =>
                   /\ Ends(c)
                   /\ last'.c = c
                   /\ last'.phase = "Failed"
                   /\ last'.message = MsgCancelled
                   /\ last'.reply = Undefined
                   /\ ~last'.invoked
                   /\ UNCHANGED <<result, lastJsTransform, lastExecError>>
          ]_vars
    /\ \A c \in Cycles : CancelledInFlight(c) ~> (cycle[c].phase = "Done")

C33_Witness ==
    /\ last.c = 2
    /\ last.phase = "Failed"
    /\ last.message = MsgCancelled
    /\ last.reply = Undefined
    /\ dom.status = [type |-> "error", message |-> MsgCancelled]
    /\ cycle[2].phase = "Done"

\* The step is one of run c while it awaits its reply: the run stays in
\* Requesting, or it ends on a network error, a timeout or a cancellation.
AwaitsOrFails(c) ==
    /\ cycle[c].phase = "Requesting"
    /\ cycle'[c] # cycle[c]
    /\ \/ cycle'[c].phase = "Requesting"
       \/ /\ Ends(c)
          /\ last'.how = "request"
          /\ last'.message \in {"Failed to fetch", MsgTimeout, MsgCancelled}

\* C34: the step that starts a run and every step of the run up to and
\* with its end on a network error, a timeout or a cancellation leave the
\* captured tables, the stored result and the retry context as they are.
C34_FailedRequestChangesNothing ==
    [][(Starts \/ \E c \in Cycles : AwaitsOrFails(c)) =>
          UNCHANGED <<heap, inputData, outputData, result, lastJsTransform,
                      lastExecError>>]_vars

C34_Witness ==
    /\ last.phase = "Failed"
    /\ last.message = "Failed to fetch"
    /\ result.has
    /\ lastJsTransform # Null
    /\ inputData # NoTable

\* The stored value counts as present: neither null nor the empty text.
Stored(v) == v # Null /\ v # ""

MessageOfExecuting(src) ==
    LET run == executeJsTransform(heap, src, inputData)
    IN  IF run.failed THEN run.thrown.message ELSE Null

\* C36: in every state a stored error message comes with a stored failed
\* source, and it is the message the execution of that source ended with.
C36_StoredMessageIsOfStoredSource ==
    (lastExecError # Null /\ lastExecError # Undefined) =>
        /\ lastJsTransform # Null
        /\ inputData # NoTable
        /\ MessageOfExecuting(lastJsTransform) = lastExecError

\* C37: a transform or retry action taken while the input table or the
\* output example is not captured issues no call and starts no cycle, ends
\* with an error message that names the missing capture, and leaves the
\* captured tables, the stored result, the retry context and the handle of
\* the request in flight as they are.
C37_ActionWithoutCapturesIsRefused ==
    [][((inputData = NoTable \/ outputData = NoTable)
        /\ (runTransform(FALSE) \/ runTransform(TRUE))) =>
          /\ nCalls' = nCalls
          /\ nCycles' = nCycles
          /\ cycle' = cycle
          /\ microtasks' = microtasks
          /\ dom'.status.type = "error"
          /\ dom'.status.message =
                IF inputData = NoTable THEN MsgNoInput ELSE MsgNoOutput
          /\ heap' = heap
          /\ inputData' = inputData
          /\ outputData' = outputData
          /\ result' = result
          /\ lastJsTransform' = lastJsTransform
          /\ lastExecError' = lastExecError
          /\ abortController' = abortController]_vars

C37_Witness ==
    /\ inputData # NoTable
    /\ outputData = NoTable
    /\ dom.status.type = "error"
    /\ dom.status.message = MsgNoOutput
    /\ nCalls = 0

\* The value has a data row that is not a sequence or whose length is not
\* the header row's.
Ragged(v) ==
    \E i \in 2 .. Len(v.elems) :
        \/ ~v.elems[i].arr
        \/ Len(v.elems[i].cells) # Len(v.elems[1].cells)

\* C38: execute checks no row but the first: a returned sequence whose
\* first element is a sequence is its table, also when a data row has
\* another length than the header row or is not a sequence.
C38_NoPerRowCheck ==
    (/\ eval.op = "executeJsTransform"
     /\ eval.done
     /\ eval.arg.src \in ConstSources) =>
        LET v == LiteralOf(eval.arg.src)
        IN  (v.isArray /\ Len(v.elems) > 0 /\ v.elems[1].arr) =>
               /\ ~eval.out.failed
               /\ eval.out.value = v

C38_Witness ==
    /\ eval.op = "executeJsTransform"
    /\ eval.done
    /\ ~eval.out.failed
    /\ Len(eval.out.value.elems) = 3
    /\ eval.out.value.elems[1] = ArrElem(<<"a", "b">>)
    /\ eval.out.value.elems[2] = ScalarElem
    /\ eval.out.value.elems[3] = ArrElem(<<"H1">>)
    /\ Ragged(eval.out.value)

\* C39: a text that parses, put between an opening and a closing code
\* fence, each present or not, the opening one with or without the tag
\* json in any letter case, with white space around the text and around
\* the fences, parses to what the text alone parses to.
C39_FencesAndSpaceAreStripped ==
    (/\ eval.op = "parseTransformResponse"
     /\ eval.done
     /\ parseTransformResponse(TextOf(eval.arg.decoded.text)).ok) =>
        eval.out = parseTransformResponse(TextOf(eval.arg.decoded.text))

C39_Witness ==
    /\ eval.op = "parseTransformResponse"
    /\ eval.done
    /\ eval.arg.raw =
          <<" ", "\n">> \o Fence \o <<"J", "S", "O", "N", " ", "\n">> \o
          TextOf(ObjectReply("upper", "Sub()", FALSE, <<>>).text) \o
          <<"\n">> \o Fence \o <<"\n">>
    /\ eval.out.ok
    /\ eval.out.jsTransform = "upper"

====
